---- MODULE Spec2Model ----
(***************************************************************************)
(* Model of tools/engine_cli/src/Engine.js: the async function run(args).  *)
(*                                                                         *)
(* run() is one JavaScript coroutine on a single-threaded event loop.  pc  *)
(* is its position.  The statements between two awaits run to completion:  *)
(* the collaborators (watcher polling, bundler process, platform tool      *)
(* chains) only make progress while run() is suspended at an await or has  *)
(* returned, and never after process.exit().                               *)
(***************************************************************************)
EXTENDS Naturals, Sequences, FiniteSets

VARIABLES
    args,             \* parsed arguments: no_packager, run_ios, run_android
    endpointUp,       \* something is listening on args.packager_port
    pc,               \* position of run()
    gates,            \* outcome of RNCLIConfigValidator / GenerateConfiguration
    probed,           \* validateDown() probed the endpoint
    vdResult,         \* what validateDown() resolved to
    watchCalled,      \* startWatchingUntilUp() was called
    watcher,          \* PackagerState of the PackagerWatcher
    packagerProcess,  \* the local variable packagerProcess of run()
    bundler,          \* the spawned Metro Bundler process
    spawnCount,       \* number of AsyncPackagerRunner().run() calls
    runner,           \* state of IosRunner / AndroidRunner
    branch,           \* state of the two promises handed to Promise.all
    failOrder,        \* branches in the order in which they rejected
    waiters,          \* runners suspended in awaitReady(), in call order
    error,            \* ex caught by the catch clause of run()
    killCount,        \* number of packagerProcess.kill() calls
    killThrew,        \* packagerProcess.kill() threw
    killErrorLogged,  \* 'Failed to stop the Metro Bundler process' was logged
    exitCode          \* <<c>> once process.exit(c) was called, <<>> before

vars == <<args, endpointUp, pc, gates, probed, vdResult, watchCalled, watcher,
          packagerProcess, bundler, spawnCount, runner, branch, failOrder,
          waiters, error, killCount, killThrew, killErrorLogged, exitCode>>

Platforms == {"ios", "android"}

Selected_swapped(p) == IF p = "ios" THEN args.run_android ELSE args.run_ios

Selected(p) == IF p = "ios" THEN args.run_ios ELSE args.run_android

InFlight == {"running", "waiting", "launching"}

----------------------------------------------------------------------------
(* Pure helpers of run()                                                   *)

\* process.exit(1) of the 'packager is already running' branch.
PortInUseExitCode == 1

CatchExitCode_one == PortInUseExitCode

\* process.exit(0) at the end of the catch clause.
CatchExitCode == 0

ShouldKill_always(pp) == TRUE

ShouldKill_never(pp) == FALSE

\* packagerProcess && typeof packagerProcess.kill === 'function'
ShouldKill(pp) == pp = "handle"

\* Promise.all: rejects as soon as one input promise has rejected, fulfils
\* once all of them have fulfilled.
PromiseAllOutcome(b) ==
    IF \E p \in Platforms : b[p] = "rejected" THEN "rejected"
    ELSE IF \A p \in Platforms : b[p] = "fulfilled" THEN "fulfilled"
    ELSE "pending"

\* run() is suspended at 'await Promise.all' with no reaction queued, or it
\* has returned: timers and I/O callbacks of the collaborators may run.
EventLoopFree ==
    \/ pc = "returned"
    \/ pc = "awaitAll" /\ PromiseAllOutcome(branch) = "pending"

----------------------------------------------------------------------------
Init ==
    /\ args \in [no_packager : BOOLEAN, run_ios : BOOLEAN, run_android : BOOLEAN]
    /\ endpointUp \in BOOLEAN
    /\ pc = "validate"
    /\ gates = [validator |-> "pending", generator |-> "pending"]
    /\ probed = FALSE
    /\ vdResult = "none"
    /\ watchCalled = FALSE
    /\ watcher = "Down"
    /\ packagerProcess = "undefined"
    /\ bundler = "none"
    /\ spawnCount = 0
    /\ runner = [p \in Platforms |-> "idle"]
    /\ branch = [p \in Platforms |-> "notStarted"]
    /\ failOrder = <<>>
    /\ waiters = <<>>
    /\ error = "none"
    /\ killCount = 0
    /\ killThrew = FALSE
    /\ killErrorLogged = FALSE
    /\ exitCode = <<>>

----------------------------------------------------------------------------
(* The statements of run(), in program order                               *)

RunValidator_swallow ==
    /\ pc = "validate"
    /\ \E ok \in BOOLEAN :
         /\ gates' = [gates EXCEPT !.validator = IF ok THEN "passed" ELSE "failed"]
         /\ pc' = "generate"
         /\ error' = error
    /\ UNCHANGED <<args, endpointUp, probed, vdResult, watchCalled, watcher, packagerProcess,
                   bundler, spawnCount, runner, branch, failOrder, waiters, killCount,
                   killThrew, killErrorLogged, exitCode>>

\* new RNCLIConfigValidator().run(): returns, or throws into the catch clause.
RunValidator ==
    /\ pc = "validate"
    /\ \E ok \in BOOLEAN :
         IF ok
         THEN /\ gates' = [gates EXCEPT !.validator = "passed"]
              /\ pc' = "generate"
              /\ error' = error
         ELSE /\ gates' = [gates EXCEPT !.validator = "failed"]
              /\ pc' = "catch"
              /\ error' = "validator"
    /\ UNCHANGED <<args, endpointUp, probed, vdResult, watchCalled, watcher, packagerProcess,
                   bundler, spawnCount, runner, branch, failOrder, waiters, killCount,
                   killThrew, killErrorLogged, exitCode>>

\* new GenerateConfiguration().run({...}): returns, or throws into the catch
\* clause.
RunGenerator ==
    /\ pc = "generate"
    /\ \E ok \in BOOLEAN :
         IF ok
         THEN /\ gates' = [gates EXCEPT !.generator = "passed"]
              /\ pc' = "validateDown"
              /\ error' = error
         ELSE /\ gates' = [gates EXCEPT !.generator = "failed"]
              /\ pc' = "catch"
              /\ error' = "generator"
    /\ UNCHANGED <<args, endpointUp, probed, vdResult, watchCalled, watcher, packagerProcess,
                   bundler, spawnCount, runner, branch, failOrder, waiters, killCount,
                   killThrew, killErrorLogged, exitCode>>

\* What 'await packagerWatcher.validateDown()' can produce: with no_packager
\* the probe is skipped and the result is true; otherwise the endpoint is
\* probed, the result is true iff nothing listens there, or the probe throws.
ValidateDownOutcomes ==
    IF args.no_packager
    THEN {[probe |-> FALSE, result |-> "true"]}
    ELSE {[probe |-> TRUE, result |-> IF endpointUp THEN "false" ELSE "true"],
          [probe |-> TRUE, result |-> "threw"]}

ValidateDown_noExit ==
    /\ pc = "validateDown"
    /\ \E o \in ValidateDownOutcomes :
         /\ probed' = o.probe
         /\ vdResult' = o.result
         /\ IF o.result = "threw"
            THEN /\ pc' = "catch"
                 /\ error' = "validateDown"
            ELSE /\ pc' = "startWatching"
                 /\ error' = error
         /\ exitCode' = exitCode
    /\ UNCHANGED <<args, endpointUp, gates, watchCalled, watcher,
                   packagerProcess, bundler, spawnCount, runner, branch,
                   failOrder, waiters, killCount, killThrew, killErrorLogged>>

ValidateDown_inverted ==
    /\ pc = "validateDown"
    /\ \E o \in ValidateDownOutcomes :
         /\ probed' = o.probe
         /\ vdResult' = o.result
         /\ IF o.result = "threw"
            THEN /\ pc' = "catch"
                 /\ error' = "validateDown"
                 /\ exitCode' = exitCode
            ELSE IF o.result = "true"
            THEN /\ pc' = "exited"
                 /\ error' = error
                 /\ exitCode' = <<PortInUseExitCode>>
            ELSE /\ pc' = "startWatching"
                 /\ error' = error
                 /\ exitCode' = exitCode
    /\ UNCHANGED <<args, endpointUp, gates, watchCalled, watcher,
                   packagerProcess, bundler, spawnCount, runner, branch,
                   failOrder, waiters, killCount, killThrew, killErrorLogged>>

ValidateDown_notAwaited ==
    /\ pc = "validateDown"
    /\ probed' = ~args.no_packager
    /\ pc' = "startWatching"
    /\ UNCHANGED <<vdResult, error, exitCode>>
    /\ UNCHANGED <<args, endpointUp, gates, watchCalled, watcher,
                   packagerProcess, bundler, spawnCount, runner, branch,
                   failOrder, waiters, killCount, killThrew, killErrorLogged>>

\* new PackagerWatcher(...); if (!(await validateDown())) { log;
\* process.exit(1) }
ValidateDown ==
    /\ pc = "validateDown"
    /\ \E o \in ValidateDownOutcomes :
         /\ probed' = o.probe
         /\ vdResult' = o.result
         /\ IF o.result = "threw"
            THEN /\ pc' = "catch"
                 /\ error' = "validateDown"
                 /\ exitCode' = exitCode
            ELSE IF o.result = "false"
            THEN /\ pc' = "exited"
                 /\ error' = error
                 /\ exitCode' = <<PortInUseExitCode>>
            ELSE /\ pc' = "startWatching"
                 /\ error' = error
                 /\ exitCode' = exitCode
    /\ UNCHANGED <<args, endpointUp, gates, watchCalled, watcher,
                   packagerProcess, bundler, spawnCount, runner, branch,
                   failOrder, waiters, killCount, killThrew, killErrorLogged>>

StartWatchingUntilUp_uncaught ==
    /\ pc = "startWatching"
    /\ watchCalled' = TRUE
    /\ \E ok \in BOOLEAN :
         IF ok
         THEN /\ watcher' = "Starting"
              /\ pc' = "spawn"
              /\ error' = error
         ELSE /\ watcher' = watcher
              /\ pc' = "unhandled"
              /\ error' = "watcher"
    /\ UNCHANGED <<args, endpointUp, gates, probed, vdResult, packagerProcess,
                   bundler, spawnCount, runner, branch, failOrder, waiters,
                   killCount, killThrew, killErrorLogged, exitCode>>

\* packagerWatcher.startWatchingUntilUp(): not awaited.  The watcher leaves
\* Down at once; a synchronous throw lands in the catch clause.
StartWatchingUntilUp ==
    /\ pc = "startWatching"
    /\ watchCalled' = TRUE
    /\ \E ok \in BOOLEAN :
         IF ok
         THEN /\ watcher' = "Starting"
              /\ pc' = "spawn"
              /\ error' = error
         ELSE /\ watcher' = watcher
              /\ pc' = "catch"
              /\ error' = "watcher"
    /\ UNCHANGED <<args, endpointUp, gates, probed, vdResult, packagerProcess,
                   bundler, spawnCount, runner, branch, failOrder, waiters, killCount,
                   killThrew, killErrorLogged, exitCode>>

SpawnPackager_always ==
    /\ pc = "spawn"
    /\ \E ok \in BOOLEAN :
         /\ spawnCount' = spawnCount + 1
         /\ IF ok
            THEN /\ packagerProcess' = "handle"
                 /\ bundler' = "running"
                 /\ pc' = "launchIos"
                 /\ error' = error
            ELSE /\ packagerProcess' = packagerProcess
                 /\ bundler' = bundler
                 /\ pc' = "catch"
                 /\ error' = "spawn"
    /\ UNCHANGED <<args, endpointUp, gates, probed, vdResult, watchCalled,
                   watcher, runner, branch, failOrder, waiters, killCount,
                   killThrew, killErrorLogged, exitCode>>

\* if (!args.no_packager) packagerProcess = new AsyncPackagerRunner().run(...)
\* A throw of run() leaves packagerProcess unassigned.
SpawnPackager ==
    /\ pc = "spawn"
    /\ IF args.no_packager
       THEN /\ pc' = "launchIos"
            /\ UNCHANGED <<packagerProcess, bundler, spawnCount, error>>
       ELSE \E ok \in BOOLEAN :
              /\ spawnCount' = spawnCount + 1
              /\ IF ok
                 THEN /\ packagerProcess' = "handle"
                      /\ bundler' = "running"
                      /\ pc' = "launchIos"
                      /\ error' = error
                 ELSE /\ packagerProcess' = packagerProcess
                      /\ bundler' = bundler
                      /\ pc' = "catch"
                      /\ error' = "spawn"
    /\ UNCHANGED <<args, endpointUp, gates, probed, vdResult, watchCalled, watcher, runner,
                   branch, failOrder, waiters, killCount, killThrew, killErrorLogged,
                   exitCode>>

LaunchBranch_spawns(p, next) ==
    /\ IF ~Selected(p)
       THEN /\ branch' = [branch EXCEPT ![p] = "fulfilled"]
            /\ UNCHANGED <<runner, failOrder, spawnCount>>
       ELSE \E ok \in BOOLEAN :
              /\ spawnCount' = spawnCount + 1
              /\ IF ok
                 THEN /\ runner' = [runner EXCEPT ![p] = "running"]
                      /\ branch' = [branch EXCEPT ![p] = "pending"]
                      /\ failOrder' = failOrder
                 ELSE /\ runner' = [runner EXCEPT ![p] = "failed"]
                      /\ branch' = [branch EXCEPT ![p] = "rejected"]
                      /\ failOrder' = Append(failOrder, p)
    /\ pc' = next
    /\ UNCHANGED waiters
    /\ UNCHANGED <<args, endpointUp, gates, probed, vdResult, watchCalled,
                   watcher, packagerProcess, bundler, error, killCount,
                   killThrew, killErrorLogged, exitCode>>

\* The body of one async arrow function up to its first await: an unselected
\* platform fulfils its branch; a selected one starts its runner, whose
\* synchronous part may throw (logged, rethrown: the branch is rejected, and
\* the statement after the arrow function still runs).
LaunchBranch(p, next) ==
    /\ IF ~Selected(p)
       THEN /\ branch' = [branch EXCEPT ![p] = "fulfilled"]
            /\ UNCHANGED <<runner, failOrder>>
       ELSE \E ok \in BOOLEAN :
              IF ok
              THEN /\ runner' = [runner EXCEPT ![p] = "running"]
                   /\ branch' = [branch EXCEPT ![p] = "pending"]
                   /\ failOrder' = failOrder
              ELSE /\ runner' = [runner EXCEPT ![p] = "failed"]
                   /\ branch' = [branch EXCEPT ![p] = "rejected"]
                   /\ failOrder' = Append(failOrder, p)
    /\ pc' = next
    /\ UNCHANGED waiters
    /\ UNCHANGED <<args, endpointUp, gates, probed, vdResult, watchCalled, watcher,
                   packagerProcess, bundler, spawnCount, error, killCount,
                   killThrew, killErrorLogged, exitCode>>

LaunchIos_sequential == pc = "launchIos" /\ LaunchBranch("ios", "awaitAll")

LaunchIos == pc = "launchIos" /\ LaunchBranch("ios", "launchAndroid")

LaunchAndroid == pc = "launchAndroid" /\ LaunchBranch("android", "awaitAll")

PromiseAllSettles_exits ==
    /\ pc = "awaitAll"
    /\ PromiseAllOutcome(branch) # "pending"
    /\ IF PromiseAllOutcome(branch) = "rejected"
       THEN /\ pc' = "catch"
            /\ error' = Head(failOrder)
       ELSE /\ pc' = "exit"
            /\ error' = error
    /\ UNCHANGED <<args, endpointUp, gates, probed, vdResult, watchCalled, watcher,
                   packagerProcess, bundler, spawnCount, runner, branch,
                   failOrder, waiters, killCount, killThrew, killErrorLogged, exitCode>>

PromiseAllSettles_byPosition ==
    /\ pc = "awaitAll"
    /\ PromiseAllOutcome(branch) # "pending"
    /\ IF PromiseAllOutcome(branch) = "rejected"
       THEN /\ pc' = "catch"
            /\ error' = IF branch["ios"] = "rejected" THEN "ios" ELSE "android"
       ELSE /\ pc' = "returned"
            /\ error' = error
    /\ UNCHANGED <<args, endpointUp, gates, probed, vdResult, watchCalled,
                   watcher, packagerProcess, bundler, spawnCount, runner,
                   branch, failOrder, waiters, killCount, killThrew,
                   killErrorLogged, exitCode>>

\* await Promise.all([...]): resumes run() when Promise.all settles; a
\* rejection carries the reason of the branch that rejected first and enters
\* the catch clause, a fulfilment lets run() return.
PromiseAllSettles ==
    /\ pc = "awaitAll"
    /\ PromiseAllOutcome(branch) # "pending"
    /\ IF PromiseAllOutcome(branch) = "rejected"
       THEN /\ pc' = "catch"
            /\ error' = Head(failOrder)
       ELSE /\ pc' = "returned"
            /\ error' = error
    /\ UNCHANGED <<args, endpointUp, gates, probed, vdResult, watchCalled, watcher,
                   packagerProcess, bundler, spawnCount, runner, branch,
                   failOrder, waiters, killCount, killThrew, killErrorLogged, exitCode>>

KillPackager_escapes ==
    /\ pc = "catch"
    /\ IF ShouldKill(packagerProcess)
       THEN \E threw \in BOOLEAN :
              /\ killCount' = killCount + 1
              /\ killThrew' = threw
              /\ killErrorLogged' = killErrorLogged
              /\ bundler' = IF ~threw /\ bundler \in {"running", "listening"}
                            THEN "killed" ELSE bundler
              /\ endpointUp' = IF ~threw /\ bundler = "listening"
                               THEN FALSE ELSE endpointUp
              /\ pc' = IF threw THEN "unhandled" ELSE "exit"
       ELSE /\ pc' = "exit"
            /\ UNCHANGED <<killCount, killThrew, killErrorLogged, bundler,
                           endpointUp>>
    /\ UNCHANGED <<args, gates, probed, vdResult, watchCalled, watcher, packagerProcess,
                   spawnCount, runner, branch, failOrder, waiters, error, exitCode>>

KillPackager_perFailure ==
    /\ pc = "catch"
    /\ IF ShouldKill(packagerProcess)
       THEN \E threw \in BOOLEAN :
              /\ killCount' = killCount + Len(failOrder)
              /\ killThrew' = threw
              /\ killErrorLogged' = threw
              /\ bundler' = IF ~threw /\ bundler \in {"running", "listening"}
                            THEN "killed" ELSE bundler
              /\ endpointUp' = IF ~threw /\ bundler = "listening"
                               THEN FALSE ELSE endpointUp
       ELSE UNCHANGED <<killCount, killThrew, killErrorLogged, bundler,
                        endpointUp>>
    /\ pc' = "exit"
    /\ UNCHANGED <<args, gates, probed, vdResult, watchCalled, watcher, packagerProcess,
                   spawnCount, runner, branch, failOrder, waiters, error, exitCode>>

\* catch (ex): if there is a killable handle, packagerProcess.kill() inside
\* its own try/catch (a throw of kill() is logged and dropped); otherwise
\* 'No Metro Bundler process to stop.'
KillPackager ==
    /\ pc = "catch"
    /\ IF ShouldKill(packagerProcess)
       THEN \E threw \in BOOLEAN :
              /\ killCount' = killCount + 1
              /\ killThrew' = threw
              /\ killErrorLogged' = threw
              /\ bundler' = IF ~threw /\ bundler \in {"running", "listening"}
                            THEN "killed" ELSE bundler
              /\ endpointUp' = IF ~threw /\ bundler = "listening"
                               THEN FALSE ELSE endpointUp
       ELSE UNCHANGED <<killCount, killThrew, killErrorLogged, bundler,
                        endpointUp>>
    /\ pc' = "exit"
    /\ UNCHANGED <<args, gates, probed, vdResult, watchCalled, watcher, packagerProcess,
                   spawnCount, runner, branch, failOrder, waiters, error, exitCode>>

\* process.exit(0), the last statement of the catch clause.
Exit ==
    /\ pc = "exit"
    /\ exitCode' = <<CatchExitCode>>
    /\ pc' = "exited"
    /\ UNCHANGED <<args, endpointUp, gates, probed, vdResult, watchCalled, watcher,
                   packagerProcess, bundler, spawnCount, runner, branch,
                   failOrder, waiters, error, killCount, killThrew, killErrorLogged>>

----------------------------------------------------------------------------
(* The collaborators: they run only while the event loop is free           *)

\* The spawned bundler opens its port.
BundlerListens ==
    /\ EventLoopFree
    /\ bundler = "running"
    /\ bundler' = "listening"
    /\ endpointUp' = TRUE
    /\ UNCHANGED <<args, pc, gates, probed, vdResult, watchCalled, watcher, packagerProcess,
                   spawnCount, runner, branch, failOrder, waiters, error, killCount,
                   killThrew, killErrorLogged, exitCode>>

\* The spawned bundler terminates on its own; the handle stays in
\* packagerProcess.
BundlerTerminates ==
    /\ EventLoopFree
    /\ bundler \in {"running", "listening"}
    /\ bundler' = "terminated"
    /\ endpointUp' = IF bundler = "listening" THEN FALSE ELSE endpointUp
    /\ UNCHANGED <<args, pc, gates, probed, vdResult, watchCalled, watcher, packagerProcess,
                   spawnCount, runner, branch, failOrder, waiters, error, killCount,
                   killThrew, killErrorLogged, exitCode>>

WatcherUnchanged ==
    UNCHANGED <<args, endpointUp, pc, gates, probed, vdResult, watchCalled,
                packagerProcess, bundler, spawnCount, error, killCount,
                killThrew, killErrorLogged, exitCode>>

RECURSIVE SetAll(_, _, _)
\* f with every element of the sequence ps mapped to v.
SetAll(f, ps, v) ==
    IF ps = <<>> THEN f
    ELSE SetAll([f EXCEPT ![Head(ps)] = v], Tail(ps), v)

\* A poll of the watcher finds the endpoint responding: Starting -> Up.  The
\* readiness awaited by the suspended runners resolves: they go on to install
\* and launch against the bundler.
WatcherUp ==
    /\ EventLoopFree
    /\ watcher = "Starting"
    /\ endpointUp
    /\ watcher' = "Up"
    /\ runner' = SetAll(runner, waiters, "launching")
    /\ waiters' = <<>>
    /\ UNCHANGED <<branch, failOrder>>
    /\ WatcherUnchanged

WatcherTimeout_staysUp ==
    /\ EventLoopFree
    /\ watcher \in {"Starting", "Up"}
    /\ watcher' = "Failed"
    /\ runner' = SetAll(runner, waiters, "failed")
    /\ branch' = SetAll(branch, waiters, "rejected")
    /\ failOrder' = failOrder \o waiters
    /\ waiters' = <<>>
    /\ WatcherUnchanged

\* The bounded wait of the watcher elapses: Starting -> Failed.  The
\* readiness awaited by the suspended runners fails (PackagerUnreachable), in
\* the order in which they called awaitReady(): each runner.run() rejects and
\* its branch logs and rethrows.  Nothing in run() holds the promise of
\* startWatchingUntilUp, so without a suspended runner run() is not resumed.
WatcherTimeout ==
    /\ EventLoopFree
    /\ watcher = "Starting"
    /\ watcher' = "Failed"
    /\ runner' = SetAll(runner, waiters, "failed")
    /\ branch' = SetAll(branch, waiters, "rejected")
    /\ failOrder' = failOrder \o waiters
    /\ waiters' = <<>>
    /\ WatcherUnchanged

RunnerUnchanged ==
    UNCHANGED <<args, endpointUp, pc, gates, probed, vdResult, watchCalled,
                watcher, packagerProcess, bundler, spawnCount, error,
                killCount, killThrew, killErrorLogged, exitCode>>

\* A runner reaches the step that needs the bundler and awaits readiness:
\* while the watcher is Starting it is suspended behind the earlier callers;
\* with the watcher already Up it goes on to install and launch against the
\* bundler; with the watcher already Failed the call fails
\* (PackagerUnreachable), runner.run() rejects, the branch logs and rethrows.
RunnerAwaitReady(p) ==
    /\ EventLoopFree
    /\ runner[p] = "running"
    /\ IF watcher = "Starting"
       THEN /\ runner' = [runner EXCEPT ![p] = "waiting"]
            /\ waiters' = Append(waiters, p)
            /\ UNCHANGED <<branch, failOrder>>
       ELSE IF watcher = "Up"
       THEN /\ runner' = [runner EXCEPT ![p] = "launching"]
            /\ UNCHANGED <<branch, failOrder, waiters>>
       ELSE /\ runner' = [runner EXCEPT ![p] = "failed"]
            /\ branch' = [branch EXCEPT ![p] = "rejected"]
            /\ failOrder' = Append(failOrder, p)
            /\ UNCHANGED waiters
    /\ RunnerUnchanged

\* A step of the native toolchain fails: runner.run() rejects, the branch
\* logs and rethrows.
RunnerFails(p) ==
    /\ EventLoopFree
    /\ runner[p] \in {"running", "launching"}
    /\ runner' = [runner EXCEPT ![p] = "failed"]
    /\ branch' = [branch EXCEPT ![p] = "rejected"]
    /\ failOrder' = Append(failOrder, p)
    /\ UNCHANGED waiters
    /\ RunnerUnchanged

\* runner.run() resolves: after the launch, or without ever needing the
\* bundler.
RunnerSucceeds(p) ==
    /\ EventLoopFree
    /\ runner[p] \in {"running", "launching"}
    /\ runner' = [runner EXCEPT ![p] = "succeeded"]
    /\ branch' = [branch EXCEPT ![p] = "fulfilled"]
    /\ UNCHANGED <<failOrder, waiters>>
    /\ RunnerUnchanged

----------------------------------------------------------------------------
Next ==
    \/ RunValidator
    \/ RunGenerator
    \/ ValidateDown
    \/ StartWatchingUntilUp
    \/ SpawnPackager
    \/ LaunchIos
    \/ LaunchAndroid
    \/ PromiseAllSettles
    \/ KillPackager
    \/ Exit
    \/ BundlerListens
    \/ BundlerTerminates
    \/ WatcherUp
    \/ WatcherTimeout
    \/ \E p \in Platforms : RunnerAwaitReady(p)
    \/ \E p \in Platforms : RunnerFails(p)
    \/ \E p \in Platforms : RunnerSucceeds(p)

Spec == Init /\ [][Next]_vars

\* The steps of run() itself.
RunStep ==
    \/ RunValidator
    \/ RunGenerator
    \/ ValidateDown
    \/ StartWatchingUntilUp
    \/ SpawnPackager
    \/ LaunchIos
    \/ LaunchAndroid
    \/ PromiseAllSettles
    \/ KillPackager
    \/ Exit

\* Synchronous code runs to completion and the continuation of a settled
\* await is always scheduled: run() does not stop between two of its steps.
\* Nothing is assumed about the collaborators.
LiveSpec == Spec /\ WF_vars(RunStep)

TypeOK ==
    /\ args \in [no_packager : BOOLEAN, run_ios : BOOLEAN, run_android : BOOLEAN]
    /\ endpointUp \in BOOLEAN
    /\ pc \in {"validate", "generate", "validateDown", "startWatching", "spawn",
               "launchIos", "launchAndroid", "awaitAll", "catch", "exit",
               "exited", "returned"}
    /\ gates \in [validator : {"pending", "passed", "failed"},
                  generator : {"pending", "passed", "failed"}]
    /\ probed \in BOOLEAN
    /\ vdResult \in {"none", "true", "false", "threw"}
    /\ watchCalled \in BOOLEAN
    /\ watcher \in {"Down", "Starting", "Up", "Failed"}
    /\ packagerProcess \in {"undefined", "handle"}
    /\ bundler \in {"none", "running", "listening", "terminated", "killed"}
    /\ spawnCount \in 0..1
    /\ runner \in [Platforms -> {"idle", "running", "waiting", "launching",
                                 "succeeded", "failed"}]
    /\ branch \in [Platforms -> {"notStarted", "pending", "fulfilled", "rejected"}]
    /\ Len(failOrder) <= 2
    /\ Len(waiters) <= 2
    /\ error \in {"none", "validator", "generator", "validateDown", "watcher",
                  "spawn", "ios", "android"}
    /\ killCount \in 0..1
    /\ killThrew \in BOOLEAN
    /\ killErrorLogged \in BOOLEAN
    /\ exitCode \in {<<>>, <<0>>, <<1>>}

----------------------------------------------------------------------------
(* Properties                                                              *)

GateFailed == gates.validator = "failed" \/ gates.generator = "failed"

GatesPassed == gates.validator = "passed" /\ gates.generator = "passed"

SomeTaskFailed == \E p \in Platforms : runner[p] = "failed"

RunOver == pc \in {"exited", "returned"}

\* C1: neither the bundler kill nor the process exit happens while a
\* launched PlatformRunner is still running: once a kill was requested or
\* process.exit was called, no runner is in flight.
C1_CleanupWaitsForAllBranches ==
    (killCount > 0 \/ exitCode # <<>>) =>
        \A p \in Platforms : runner[p] \notin InFlight

\* C2: with no_packager = false, once validateDown() has returned false the
\* run has terminated and nothing was started: no bundler was spawned,
\* startWatchingUntilUp was not called and neither PlatformRunner ran.
C2_OccupiedEndpointStartsNothing ==
    (~args.no_packager /\ vdResult = "false") =>
        /\ pc = "exited"
        /\ spawnCount = 0 /\ bundler = "none" /\ packagerProcess = "undefined"
        /\ ~watchCalled /\ watcher = "Down"
        /\ \A p \in Platforms : runner[p] = "idle" /\ branch[p] = "notStarted"

C2_Witness ==
    /\ ~args.no_packager /\ args.run_ios /\ args.run_android
    /\ probed /\ vdResult = "false" /\ pc = "exited"

\* C3: a run that retained the bundler handle and in which a platform task
\* failed has requested the kill of the bundler by the time it has exited.
C3_KillBeforeExitOnTaskFailure ==
    (pc = "exited" /\ packagerProcess = "handle" /\ SomeTaskFailed) =>
        killCount >= 1

C3_Witness ==
    /\ pc = "exited" /\ packagerProcess = "handle"
    /\ runner["android"] = "failed" /\ killCount = 1 /\ bundler = "killed"

\* C4: a run that spawned the bundler and whose watcher ended in Failed is
\* fatal and has killed the bundler, whatever platforms were selected: when
\* such a run is over, it is over by process exit after one kill request.
C4_UnreadyBundlerIsFatalAndKilled ==
    (RunOver /\ packagerProcess = "handle" /\ watcher = "Failed") =>
        pc = "exited" /\ killCount = 1

C6_GateFailureExitsNonZero ==
    (pc = "exited" /\ GateFailed) => exitCode # <<0>>

\* C7: the exit status is 1 exactly when the run stopped because
\* validateDown() returned false; every exit through the catch clause (gate,
\* readiness or platform task failure) has status 0, and that exit comes only
\* after the kill attempt on a retained handle.
C7_ExitStatus ==
    /\ exitCode = <<1>> <=> (pc = "exited" /\ vdResult = "false")
    /\ (pc = "exited" /\ error # "none") => exitCode = <<0>>
    /\ exitCode = <<0>> =>
         /\ error # "none"
         /\ packagerProcess = "handle" => killCount = 1

C7_Witness ==
    /\ pc = "exited" /\ exitCode = <<0>> /\ vdResult = "true"
    /\ error = "ios" /\ killCount = 1

\* C8: a throw of packagerProcess.kill() is caught and logged, run() goes on
\* to process.exit, and the exit status after a failed kill is the one of a
\* successful kill.
C8_KillFailureIsContained ==
    /\ killThrew => killErrorLogged /\ pc \in {"exit", "exited"}
    /\ (pc = "exited" /\ killCount = 1) => exitCode = <<0>>

C8_Witness ==
    /\ killThrew /\ killErrorLogged /\ pc = "exited" /\ exitCode = <<0>>
    /\ bundler = "terminated"

\* C9: the kill of the bundler is requested at most once in a run, and a run
\* that retained the handle, had a platform task fail and has exited
\* requested it exactly once, whether one or both branches failed.
C9_CleanupExactlyOnce ==
    /\ killCount <= 1
    /\ (pc = "exited" /\ packagerProcess = "handle" /\ SomeTaskFailed) =>
         killCount = 1

C9_Witness ==
    /\ pc = "exited" /\ packagerProcess = "handle"
    /\ failOrder = <<"ios", "android">> /\ killCount = 1

\* C10: once the ConfigValidator or the ConfigGenerator has failed, nothing
\* has been or will be started: no probe of the endpoint, no
\* startWatchingUntilUp, no bundler spawn, no PlatformRunner, and no kill.
C10_GateFailureStartsNothing ==
    GateFailed =>
        /\ ~probed /\ vdResult = "none"
        /\ ~watchCalled /\ watcher = "Down"
        /\ spawnCount = 0 /\ bundler = "none" /\ packagerProcess = "undefined"
        /\ \A p \in Platforms : runner[p] = "idle" /\ branch[p] = "notStarted"
        /\ killCount = 0

C10_Witness ==
    /\ pc = "exited" /\ gates.validator = "passed"
    /\ gates.generator = "failed" /\ error = "generator"

\* C11: with no_packager = true the Orchestrator spawns no bundler, the
\* handle stays absent for the whole run, and no kill is ever requested, on
\* the failure paths included.
C11_NoPackagerNeverSpawnsNorKills ==
    args.no_packager =>
        /\ spawnCount = 0 /\ bundler = "none"
        /\ packagerProcess = "undefined"
        /\ killCount = 0

C11_Witness ==
    /\ args.no_packager /\ pc = "exited" /\ error = "android"
    /\ packagerProcess = "undefined" /\ killCount = 0

C13_Ordering ==
    /\ watchCalled => vdResult = "true"
    /\ spawnCount > 0 => watchCalled /\ watcher # "Down"
    /\ \A p \in Platforms :
         /\ runner[p] # "idle" =>
              /\ watchCalled /\ watcher # "Down"
              /\ ~args.no_packager => spawnCount = 1
         /\ runner[p] = "launching" => watcher = "Up"

C13_Witness ==
    /\ probed /\ vdResult = "true" /\ watchCalled /\ spawnCount = 1
    /\ runner["ios"] = "launching" /\ runner["android"] = "running"
    /\ watcher = "Up"

\* C14: every change of the PackagerWatcher state is Down -> Starting,
\* Starting -> Up or Starting -> Failed; in particular Up and Failed are
\* never left, whatever the bundler and the platform tasks do meanwhile.
C14_WatcherTransitions ==
    [][watcher' # watcher =>
         <<watcher, watcher'>> \in {<<"Down", "Starting">>,
                                    <<"Starting", "Up">>,
                                    <<"Starting", "Failed">>}]_vars

C14_Witness ==
    /\ watcher = "Up" /\ bundler = "terminated" /\ ~endpointUp
    /\ runner["ios"] = "launching"

\* C15: at most one bundler process runner is created and at most one
\* bundler process is spawned in a run.
C15_AtMostOneBundler ==
    /\ spawnCount <= 1
    /\ bundler # "none" => spawnCount = 1
    /\ packagerProcess = "handle" => spawnCount = 1

C15_Witness ==
    /\ spawnCount = 1 /\ pc = "returned"
    /\ runner["ios"] = "succeeded" /\ runner["android"] = "succeeded"

\* C16: with both platforms selected, once the iOS branch was started and
\* the synchronous fan-out is through, the Android runner was started too,
\* also when the iOS branch failed at once; run() reaches neither the await
\* nor the catch clause with the iOS branch started and Android not.
C16_BothBranchesLaunched ==
    (/\ args.run_ios /\ args.run_android
     /\ branch["ios"] # "notStarted" /\ pc # "launchAndroid") =>
        runner["android"] # "idle" /\ branch["android"] # "notStarted"

C16_Witness ==
    /\ args.run_ios /\ args.run_android /\ pc = "awaitAll"
    /\ failOrder = <<"ios">> /\ runner["android"] = "running"

\* C17: a PlatformRunner was started exactly if its flag (run_ios for iOS,
\* run_android for Android) is set and its branch of the fan-out was
\* started; the branch of an unselected platform is fulfilled without a
\* runner; with no platform selected the fan-out fulfils, run() returns and
\* the bundler is not killed.
C17_RunnersFollowFlags ==
    /\ runner["ios"] # "idle" <=>
         (args.run_ios /\ branch["ios"] # "notStarted")
    /\ runner["android"] # "idle" <=>
         (args.run_android /\ branch["android"] # "notStarted")
    /\ (~args.run_ios /\ branch["ios"] # "notStarted") =>
         branch["ios"] = "fulfilled"
    /\ (~args.run_android /\ branch["android"] # "notStarted") =>
         branch["android"] = "fulfilled"
    /\ (~args.run_ios /\ ~args.run_android /\ branch["android"] # "notStarted") =>
         /\ pc \in {"awaitAll", "returned"}
         /\ killCount = 0 /\ exitCode = <<>> /\ bundler # "killed"

C17_Witness ==
    /\ ~args.run_ios /\ ~args.run_android /\ ~args.no_packager
    /\ pc = "returned" /\ bundler = "listening"
    /\ branch["ios"] = "fulfilled" /\ branch["android"] = "fulfilled"

\* C18: the error caught by run() after the fan-out is the one of the branch
\* that rejected first in time, also when both branches have rejected and the
\* Android branch did so before the iOS branch.
C18_FirstFailureIsCaptured ==
    error \in Platforms => failOrder # <<>> /\ error = Head(failOrder)

C18_Witness ==
    /\ failOrder = <<"android", "ios">> /\ error = "android"
    /\ pc = "exited"

\* A failure was raised by the validator, the generator, validateDown(),
\* the synchronous part of startWatchingUntilUp(), the bundler spawn or a
\* platform branch.
FailureRaised ==
    \/ GateFailed
    \/ vdResult = "threw"
    \/ error \in {"watcher", "spawn"}
    \/ \E p \in Platforms : branch[p] = "rejected"

\* C19: every failure raised by the validator, the generator, validateDown(),
\* the synchronous part of startWatchingUntilUp(), the bundler spawn or a
\* platform branch is caught by run() and leads through the cleanup to
\* process.exit: a run in which one was raised eventually has exited.
C19_FailuresReachExit ==
    FailureRaised ~> (pc = "exited" /\ exitCode = <<CatchExitCode>>)

C19_Witness ==
    /\ pc = "exited" /\ error = "watcher" /\ ~args.no_packager
    /\ spawnCount = 0 /\ exitCode = <<0>>

\* C20: a kill is requested only in the catch clause of run() and only on
\* the handle of a bundler this run spawned; a failure before the spawn, or
\* a throw of the spawn, leads to no kill; and while something other than
\* the spawned bundler listens on the endpoint, no kill was requested.
C20_KillOnlyOwnBundler ==
    /\ killCount > 0 =>
         /\ packagerProcess = "handle" /\ spawnCount = 1
         /\ error # "none" /\ pc \in {"exit", "exited"}
    /\ error \in {"validator", "generator", "validateDown", "watcher", "spawn"}
         => killCount = 0
    /\ (endpointUp /\ bundler # "listening") => killCount = 0

C20_Witness ==
    /\ pc = "exited" /\ error = "spawn" /\ spawnCount = 1
    /\ packagerProcess = "undefined" /\ killCount = 0

====
